---- MODULE Spec2Model ----
(***************************************************************************)
(* A model of the OnePieceSimulation navigators:                           *)
(*   Mode2Navigator (src/mode2.py) with its HeapNode (src/heap_node.py),   *)
(*   Mode1Navigator (src/mode1.py).                                        *)
(* Land objects are shared mutable records: the fields gold and guardians  *)
(* of every Land are state variables, and containers hold Land names.      *)
(* Python floats are modelled as exact rationals <<numerator, denominator>>*)
(* in lowest terms with a positive denominator.                            *)
(***************************************************************************)
EXTENDS Integers, Sequences, FiniteSets, Bags, TLC

\* ------------------------------------------------------------- bounds
MaxTeams == 3
MaxBudget == 2
MaxDays == 2
MaxAdv == 3
MaxProbes == 1
MaxUpdates == 1
MaxSites == 12

\* ------------------------------------------------- exact rationals
RECURSIVE GCD(_, _)
GCD(a, b) == IF b = 0 THEN a ELSE GCD(b, a % b)

Abs(n) == IF n < 0 THEN -n ELSE n

\* n/d in lowest terms, d > 0
Norm(n, d) ==
  LET g == GCD(Abs(n), d)
  IN  IF n = 0 THEN <<0, 1>> ELSE <<n \div g, d \div g>>

Rat(n) == <<n, 1>>
RAdd(p, q) == Norm(p[1] * q[2] + q[1] * p[2], p[2] * q[2])
RSub(p, q) == Norm(p[1] * q[2] - q[1] * p[2], p[2] * q[2])
RMulInt(k, p) == Norm(k * p[1], p[2])
\* p / k for an integer k > 0
RDivInt(p, k) == Norm(p[1], p[2] * k)
\* k / p for an integer k and a rational p > 0
IntDivR(k, p) == Norm(k * p[2], p[1])
RLt(p, q) == p[1] * q[2] < q[1] * p[2]
RLe(p, q) == p[1] * q[2] <= q[1] * p[2]
RMin(p, q) == IF RLe(p, q) THEN p ELSE q
RMax(p, q) == IF RLe(p, q) THEN q ELSE p
Min(a, b) == IF a <= b THEN a ELSE b

\* ------------------------------------------------------------ Lands
Lands == {"A", "B", "C"}
None == "None"

\* the <<gold, guardians>> a caller may construct a Land with: no guardians,
\* gold exactly 2.5 per guardian, and more than 2.5 per guardian
LandValues == {<<6, 0>>, <<5, 2>>, <<6, 2>>, <<8, 3>>}

\* Mode2Navigator docstring example: A(400,100), B(750,120), C(200,30)
Example2Gold == [l \in Lands |-> IF l = "A" THEN Rat(400)
                                 ELSE IF l = "B" THEN Rat(750) ELSE Rat(200)]
Example2Guard == [l \in Lands |-> IF l = "A" THEN 100
                                  ELSE IF l = "B" THEN 120 ELSE 30]
Example2Teams == 5
Example2Budget == 100

VARIABLES
  gold,             \* Land.gold, per Land
  guardians,        \* Land.guardians, per Land
  gold0,            \* history: Land.gold as the caller constructed the Land
  guardians0,       \* history: Land.guardians as the caller constructed it
  \* ---- Mode2Navigator
  n_teams,          \* self.n_teams
  sites_temp,       \* self.sites_temp: NoArray (None) or the ArrayR's items
  heap_sites,       \* self.sites: the MaxHeap, a bag of HeapNodes
  m2_pc,            \* where the Mode2Navigator's caller is
  adventurer_size,  \* simulate_day's parameter
  team,             \* simulate_day's loop index
  heap_node,        \* simulate_day's local heap_node (last popped)
  res_tuples,       \* simulate_day's local res_tuples
  score_ret,        \* the last public compute_score call and its result
  days,             \* simulate_day calls made so far
  sent_sum,         \* history: per Land, the adventurers all attacks sent to it
  \* ---- Mode1Navigator
  bst_sites,        \* self.sites: the BinarySearchTree, a set of key/item nodes
  total_adventurers,\* self.total_adventurers
  m1_pc,            \* where the Mode1Navigator's caller is
  m1_op,            \* the last Mode1Navigator call and its arguments
  m1_ret,           \* what that call returned, or <<the exception it raised>>
  m1_remaining,     \* select_sites' remaining_adventurers when it returned
  updates,          \* update_site calls made so far
  inserted          \* history: the Lands in the order _create_bst inserted them

m2Vars == <<n_teams, sites_temp, heap_sites, m2_pc, adventurer_size, team,
            heap_node, res_tuples, score_ret, days, sent_sum>>
m1Vars == <<bst_sites, total_adventurers, m1_pc, m1_op, m1_ret,
            m1_remaining, updates, inserted>>
landVars == <<gold, guardians>>
histVars == <<gold0, guardians0>>
vars == <<landVars, histVars, m2Vars, m1Vars>>

\* ----------------------------------------------------- Mode2Navigator
\* self.sites_temp = None; an ArrayR never has length 0
NoArray == <<>>

\* HeapNode(land, o_score)
HeapNode(land, o_score) == [land |-> land, o_score |-> o_score]

\* no HeapNode popped yet; no compute_score call made yet
NoNode == [land |-> None, o_score |-> <<0, 1>>]
NoCall == [site |-> None, B |-> 0, ret |-> <<>>]

\* mutant: the comparison is the wrong way round
HeapNodeGe_reversed(a, b) == RLe(a.o_score, b.o_score)

\* HeapNode.__ge__: by o_score alone
HeapNodeGe(a, b) == RLe(b.o_score, a.o_score)

\* 2.5 * adventurer_size
Threshold(B) == Norm(5 * B, 2)

\* mutant: the adventurers sent are not capped by the budget
compute_score_uncapped(g, gd, B) ==
  LET reward_earned == IF gd = 0 THEN Rat(0) ELSE g
      remaining_adventurers == B - gd
      o_score == RAdd(Norm(5 * remaining_adventurers, 2), reward_earned)
  IN  <<o_score, reward_earned, remaining_adventurers>>

\* mutant: no guardians is not special, the whole gold counts as earned
compute_score_no_zero_case(g, gd, B) ==
  LET minimum_adventurers_needed == Min(gd, B)
      reward_earned ==
        IF gd = 0 THEN g
        ELSE RMin(RDivInt(RMulInt(minimum_adventurers_needed, g), gd), g)
      remaining_adventurers == B - minimum_adventurers_needed
      o_score == RAdd(Norm(5 * remaining_adventurers, 2), reward_earned)
  IN  <<o_score, reward_earned, remaining_adventurers>>

\* compute_score on a Land whose fields are g (gold) and gd (guardians):
\* <<o_score, reward_earned, remaining_adventurers>>
compute_score(g, gd, B) ==
  LET minimum_adventurers_needed == Min(gd, B)
      reward_earned ==
        IF gd = 0 THEN Rat(0)      \* except ZeroDivisionError
        ELSE RMin(RDivInt(RMulInt(minimum_adventurers_needed, g), gd), g)
      remaining_adventurers == B - minimum_adventurers_needed
      o_score == RAdd(Norm(5 * remaining_adventurers, 2), reward_earned)
  IN  <<o_score, reward_earned, remaining_adventurers>>

\* construct_score_data_structure: one HeapNode per item of sites_temp
RECURSIVE HeapNodesOf(_, _)
HeapNodesOf(arr, B) ==
  IF arr = <<>> THEN EmptyBag
  ELSE LET l == Head(arr)
       IN  SetToBag({HeapNode(l, compute_score(gold[l], guardians[l], B)[1])})
             (+) HeapNodesOf(Tail(arr), B)

construct_score_data_structure(B) == HeapNodesOf(sites_temp, B)

\* MaxHeap.get_max: the nodes get_max may return (a maximum by o_score)
get_max(h) ==
  {n \in BagToSet(h) : \A m \in BagToSet(h) : HeapNodeGe(n, m)}

\* mutant: attack at the threshold too
Attacks_at_threshold(node, B) == RLe(Threshold(B), node.o_score)

\* simulate_day's test: current_score > 2.5 * adventurer_size
Attacks(node, B) == RLt(Threshold(B), node.o_score)

\* the non-empty lists of Lands a caller may pass to add_sites
RECURSIVE SeqsUpTo(_, _)
SeqsUpTo(S, n) ==
  IF n = 0 THEN {<<>>}
  ELSE LET shorter == SeqsUpTo(S, n - 1)
       IN  shorter \cup {Append(s, x) : s \in shorter, x \in S}

Budgets == (0 .. MaxBudget) \cup {Example2Budget}

M2Idle == m2_pc \in {"idle", "returned", "raised"}

M2Start ==
  /\ sites_temp = NoArray
  /\ heap_sites = EmptyBag
  /\ m2_pc = "idle"
  /\ adventurer_size = 0
  /\ team = 0
  /\ heap_node = NoNode
  /\ res_tuples = <<>>
  /\ score_ret = NoCall
  /\ days = 0
  /\ sent_sum = [l \in Lands |-> 0]

M1Unused ==
  /\ bst_sites = {}
  /\ total_adventurers = 0
  /\ m1_pc = "unused"
  /\ m1_op = [name |-> None, args |-> <<>>]
  /\ m1_ret = <<>>
  /\ m1_remaining = 0
  /\ updates = 0
  /\ inserted = <<>>

\* Lands as their caller constructed them, and Mode2Navigator(n_teams)
InitM2 ==
  /\ \/ \E f \in [Lands -> LandValues] :
          /\ gold = [l \in Lands |-> Rat(f[l][1])]
          /\ guardians = [l \in Lands |-> f[l][2]]
          /\ n_teams \in 0 .. MaxTeams
     \/ /\ gold = Example2Gold
        /\ guardians = Example2Guard
        /\ n_teams = Example2Teams
  /\ gold0 = gold
  /\ guardians0 = guardians
  /\ M2Start
  /\ M1Unused

\* the Lands of a list
Range(s) == {s[i] : i \in 1 .. Len(s)}

\* add_sites(sites), sites a non-empty list of distinct Lands not added before
add_sites(sites) ==
  /\ M2Idle
  /\ sites # <<>>
  /\ Cardinality(Range(sites)) = Len(sites)
  /\ Range(sites) \cap Range(sites_temp) = {}
  /\ sites_temp' = IF sites_temp = NoArray THEN sites ELSE sites_temp \o sites
  /\ m2_pc' = "idle"
  /\ UNCHANGED <<gold, guardians, n_teams, heap_sites, adventurer_size, team,
                 heap_node, res_tuples, score_ret, days, sent_sum, m1Vars,
                 histVars>>

\* simulate_day(B), up to the first loop test
simulate_day_start(B) ==
  /\ M2Idle
  /\ days < MaxDays
  /\ days' = days + 1
  /\ adventurer_size' = B
  /\ res_tuples' = <<>>
  /\ team' = 0
  /\ heap_node' = NoNode
  /\ IF sites_temp = NoArray
     THEN \* len(None): TypeError
          /\ m2_pc' = "raised"
          /\ UNCHANGED heap_sites
     ELSE /\ heap_sites' = construct_score_data_structure(B)
          /\ m2_pc' = "loop"
  /\ UNCHANGED <<gold, guardians, n_teams, sites_temp, score_ret, sent_sum,
                 m1Vars, histVars>>

\* mutant: the guardians lost are stored, not taken off
update_site_m2_stores_lost(h, land, reward_lost, guardians_lost, B) ==
  LET new_guardians == guardians_lost
      new_gold == RMax(Rat(0), RSub(gold[land], reward_lost))
      res == compute_score(new_gold, new_guardians, B)
  IN  /\ guardians' = [guardians EXCEPT ![land] = new_guardians]
      /\ gold' = [gold EXCEPT ![land] = new_gold]
      /\ heap_sites' = h (+) SetToBag({HeapNode(land, res[1])})

\* _update_site(land, reward_lost, guardians_lost, adventurer_size) on the
\* heap h left by get_max
update_site_m2(h, land, reward_lost, guardians_lost, B) ==
  LET new_guardians == guardians[land] - guardians_lost
      new_gold == RMax(Rat(0), RSub(gold[land], reward_lost))
      res == compute_score(new_gold, new_guardians, B)
  IN  /\ guardians' = [guardians EXCEPT ![land] = new_guardians]
      /\ gold' = [gold EXCEPT ![land] = new_gold]
      /\ heap_sites' = h (+) SetToBag({HeapNode(land, res[1])})

\* one iteration of simulate_day's loop
team_turn ==
  /\ m2_pc = "loop"
  /\ team < n_teams
  /\ IF BagToSet(heap_sites) = {}
     THEN \* get_max on an empty heap fails
          /\ m2_pc' = "raised"
          /\ UNCHANGED <<gold, guardians, heap_sites, team, heap_node, res_tuples,
                         sent_sum>>
     ELSE \E node \in get_max(heap_sites) :
            LET h == heap_sites (-) SetToBag({node})
                current_land == node.land
                B == adventurer_size
            IN  /\ heap_node' = node
                /\ team' = team + 1
                /\ m2_pc' = "loop"
                /\ IF Attacks(node, B)
                   THEN LET result == compute_score(gold[current_land],
                                                    guardians[current_land], B)
                        IN  /\ res_tuples' =
                                 Append(res_tuples, <<current_land, B - result[3]>>)
                            /\ sent_sum' =
                                 [sent_sum EXCEPT ![current_land] = @ + B - result[3]]
                            /\ update_site_m2(h, current_land, result[2],
                                              B - result[3], B)
                   ELSE /\ res_tuples' = Append(res_tuples, <<None, 0>>)
                        /\ heap_sites' = h
                        /\ UNCHANGED <<gold, guardians, sent_sum>>
  /\ UNCHANGED <<n_teams, sites_temp, adventurer_size, score_ret, days, m1Vars, histVars>>

\* simulate_day's return res_tuples
simulate_day_return ==
  /\ m2_pc = "loop"
  /\ team = n_teams
  /\ m2_pc' = "returned"
  /\ UNCHANGED <<gold, guardians, n_teams, sites_temp, heap_sites,
                 adventurer_size, team, heap_node, res_tuples, score_ret, days,
                 sent_sum, m1Vars, histVars>>

\* a caller's compute_score(site, B)
compute_score_call(site, B) ==
  /\ M2Idle
  /\ score_ret' = [site |-> site, B |-> B,
                   ret |-> compute_score(gold[site], guardians[site], B)]
  /\ UNCHANGED <<gold, guardians, n_teams, sites_temp, heap_sites, m2_pc,
                 adventurer_size, team, heap_node, res_tuples, days, sent_sum,
                 m1Vars, histVars>>

NextM2 ==
  \/ \E sites \in SeqsUpTo(Lands, Cardinality(Lands)) : add_sites(sites)
  \/ \E B \in Budgets : simulate_day_start(B)
  \/ team_turn
  \/ simulate_day_return

SpecM2 == InitM2 /\ [][NextM2]_vars

\* callers of the pure compute_score alone
NextScore == \E site \in Lands, B \in Budgets : compute_score_call(site, B)

SpecScore == InitM2 /\ [][NextScore]_vars

\* ----------------------------------------------------- Mode1Navigator
\* Mode1Navigator docstring example: A(500,100), B(300,170), C(100,50), 300
Example1Gold == [l \in Lands |-> IF l = "A" THEN Rat(500)
                                 ELSE IF l = "B" THEN Rat(300) ELSE Rat(100)]
Example1Guard == [l \in Lands |-> IF l = "A" THEN 100
                                  ELSE IF l = "B" THEN 170 ELSE 50]
Example1Budget == 300

\* the adventurer totals a caller may pass
AdvValues == (0 .. MaxAdv) \cup {Example1Budget}
\* the new_reward and new_guardians a caller may pass to update_site
NewRewards == {0, 3}
NewGuardians == {0, 1}

NoOp == [name |-> None, args |-> <<>>]

M2Unused ==
  /\ n_teams = 0
  /\ sites_temp = NoArray
  /\ heap_sites = EmptyBag
  /\ m2_pc = "unused"
  /\ adventurer_size = 0
  /\ team = 0
  /\ heap_node = NoNode
  /\ res_tuples = <<>>
  /\ score_ret = NoCall
  /\ days = 0
  /\ sent_sum = [l \in Lands |-> 0]

\* Lands as their caller constructed them (gold # 0), before Mode1Navigator(...)
InitM1 ==
  /\ \/ \E f \in [Lands -> LandValues] :
          /\ gold = [l \in Lands |-> Rat(f[l][1])]
          /\ guardians = [l \in Lands |-> f[l][2]]
     \/ /\ gold = Example1Gold
        /\ guardians = Example1Guard
  /\ gold0 = gold
  /\ guardians0 = guardians
  /\ bst_sites = {}
  /\ total_adventurers = 0
  /\ m1_pc = "new"
  /\ m1_op = NoOp
  /\ m1_ret = <<>>
  /\ m1_remaining = 0
  /\ updates = 0
  /\ inserted = <<>>
  /\ M2Unused

M1Idle == m1_pc = "idle"

\* the ratio key: land.get_guardians() / land.get_gold(), gold # 0
RatioKey(g, gd) == IntDivR(gd, g)

\* BinarySearchTree.__setitem__: insert, or replace the item under the key
BstSet(bst, key, item) ==
  {e \in bst : e.key # key} \cup {[key |-> key, item |-> item]}

\* BinarySearchTree.__delitem__ of a key that is there
BstDel(bst, key) == {e \in bst : e.key # key}

BstHas(bst, key) == \E e \in bst : e.key = key

\* BinarySearchTree.__getitem__: the item under the key, None for KeyError
BstGet(bst, key) ==
  IF BstHas(bst, key) THEN (CHOOSE e \in bst : e.key = key).item ELSE None

\* BinarySearchTree without rebalancing, keys ks inserted in turn into an
\* empty tree: the node of ks[j] is above the node of ks[i] iff ks[j] came
\* first and no earlier key lies between the two (so the descent for ks[i]
\* reaches ks[j])
BstAbove(ks, j, i) ==
  /\ j < i
  /\ \A m \in 1 .. j - 1 :
        ~((RLt(ks[j], ks[m]) /\ RLt(ks[m], ks[i]))
          \/ (RLt(ks[i], ks[m]) /\ RLt(ks[m], ks[j])))

\* the nodes on the path from the root to the node of ks[i]
BstDepth(ks, i) == 1 + Cardinality({j \in 1 .. Len(ks) : BstAbove(ks, j, i)})

\* the nodes on the longest path from the root to a leaf
BstHeight(ks) ==
  IF ks = <<>> THEN 0
  ELSE CHOOSE h \in 1 .. Len(ks) :
         /\ \E i \in 1 .. Len(ks) : BstDepth(ks, i) = h
         /\ \A i \in 1 .. Len(ks) : BstDepth(ks, i) <= h

\* BSTInOrderIterator: the nodes in ascending key order
RECURSIVE InOrder(_)
InOrder(bst) ==
  IF bst = {} THEN <<>>
  ELSE LET first == CHOOSE e \in bst : \A o \in bst : RLe(e.key, o.key)
       IN  <<first>> \o InOrder(bst \ {first})

\* the Lands of S that no Land of S precedes by guardians/gold
Smallest(S) ==
  {x \in S : \A y \in S : RLe(RatioKey(gold[x], guardians[x]),
                               RatioKey(gold[y], guardians[y]))}

\* mergesort(l, key): the orders it may return for the Lands of S, every
\* listing of S that ascends by guardians/gold
RECURSIVE Sorted(_)
Sorted(S) ==
  IF S = {} THEN {<<>>}
  ELSE UNION {{<<x>> \o rest : rest \in Sorted(S \ {x})} : x \in Smallest(S)}

\* mutant: the sorted list is inserted from its first item to its last
InsertionOrder_sorted(l) == l

\* mutant: the second _append_to_bst call is missing
InsertionOrder_left_only(l) ==
  LET median_index == Len(l) \div 2 + 1
  IN  <<l[median_index]>>
        \o [i \in 1 .. median_index - 1 |-> l[median_index - i]]

\* _create_bst's order of insertion: the median, the items left of it from
\* the nearest to the first, the items right of it from the nearest to the last
InsertionOrder(l) ==
  LET median_index == Len(l) \div 2 + 1
  IN  <<l[median_index]>>
        \o [i \in 1 .. median_index - 1 |-> l[median_index - i]]
        \o [i \in 1 .. Len(l) - median_index |-> l[median_index + i]]

\* _append_to_bst: bst[key] = item for each item in turn
RECURSIVE append_to_bst(_, _)
append_to_bst(bst, items) ==
  IF items = <<>> THEN bst
  ELSE LET item == Head(items)
       IN  append_to_bst(BstSet(bst, RatioKey(gold[item], guardians[item]), item),
                         Tail(items))

create_bst(l) == append_to_bst({}, InsertionOrder(l))

\* Mode1Navigator(sites, adventurers), sites a list of the Lands of S
mode1_init(S, adventurers) ==
  /\ m1_pc = "new"
  /\ m1_op' = [name |-> "__init__", args |-> <<S, adventurers>>]
  /\ IF S = {} \/ \E l \in S : gold[l][1] = 0
     THEN \* l[0] of an empty list: IndexError; gold = 0: ZeroDivisionError
          /\ m1_pc' = "failed"
          /\ UNCHANGED <<bst_sites, total_adventurers, inserted>>
     ELSE /\ \E l \in Sorted(S) :
               /\ bst_sites' = create_bst(l)
               /\ inserted' = InsertionOrder(l)
          /\ total_adventurers' = adventurers
          /\ m1_pc' = "returned"
  /\ UNCHANGED <<m1_ret, m1_remaining, updates, landVars, histVars, m2Vars>>

\* mutant: keep visiting when no adventurer remains
KeepsGoing_at_zero(remaining) == remaining >= 0

\* select_sites' loop test: while remaining_adventurers > 0
KeepsGoing(remaining) == remaining > 0

\* mutant: the whole guard is sent whatever remains
SentTo_uncapped(remaining, gd) == gd

\* select_sites: min(remaining_adventurers, site_node.item.get_guardians())
SentTo(remaining, gd) == Min(remaining, gd)

\* select_sites' loop over the nodes still to iterate:
\* <<res_tuples, remaining_adventurers>> at the return
RECURSIVE SelectLoop(_, _, _)
SelectLoop(nodes, remaining, res) ==
  IF ~KeepsGoing(remaining) THEN <<res, remaining>>
  ELSE IF nodes = <<>> THEN <<res, remaining>>     \* StopIteration
  ELSE LET item == Head(nodes).item
           minimum_adventurers_required == SentTo(remaining, guardians[item])
       IN  SelectLoop(Tail(nodes), remaining - minimum_adventurers_required,
                      Append(res, <<item, minimum_adventurers_required>>))

\* select_sites with self.total_adventurers = total
SelectSites(total) == SelectLoop(InOrder(bst_sites), total, <<>>)

\* a caller's select_sites()
select_sites ==
  /\ M1Idle
  /\ m1_op' = [name |-> "select_sites", args |-> <<>>]
  /\ m1_ret' = SelectSites(total_adventurers)[1]
  /\ m1_remaining' = SelectSites(total_adventurers)[2]
  /\ m1_pc' = "returned"
  /\ UNCHANGED <<bst_sites, total_adventurers, updates, inserted, landVars,
                 histVars, m2Vars>>

RECURSIVE RSum(_)
RSum(s) == IF s = <<>> THEN Rat(0) ELSE RAdd(Head(s), RSum(Tail(s)))

\* the inner loop of select_sites_from_adventure_numbers: the reward of each
\* (land, adv) of the path; guardians # 0 for each
PathRewards(path) ==
  [i \in 1 .. Len(path) |->
     LET land == path[i][1]
         adv == path[i][2]
     IN  RMin(RDivInt(RMulInt(adv, gold[land]), guardians[land]), gold[land])]

\* the outer loop of select_sites_from_adventure_numbers over the numbers
\* still to probe: whether it raised, self.total_adventurers and res_rewards
RECURSIVE ProbeLoop(_, _, _)
ProbeLoop(numbers, total, res_rewards) ==
  IF numbers = <<>>
  THEN [raised |-> FALSE, total |-> total, res_rewards |-> res_rewards]
  ELSE LET current_advs == Head(numbers)
           optimal_path == SelectSites(current_advs)[1]
       IN  IF \E i \in 1 .. Len(optimal_path) : guardians[optimal_path[i][1]] = 0
           THEN \* adv * gold / 0: ZeroDivisionError, not caught
                [raised |-> TRUE, total |-> current_advs, res_rewards |-> res_rewards]
           ELSE ProbeLoop(Tail(numbers), current_advs,
                          Append(res_rewards, RSum(PathRewards(optimal_path))))

\* mutant: the total is not restored
Restored_not(temp, last) == last

\* self.total_adventurers = temp, after the loop
Restored(temp, last) == temp

\* a caller's select_sites_from_adventure_numbers(adventure_numbers)
select_sites_from_adventure_numbers(adventure_numbers) ==
  /\ M1Idle
  /\ m1_op' = [name |-> "select_sites_from_adventure_numbers",
               args |-> adventure_numbers]
  /\ LET temp == total_adventurers
         r == ProbeLoop(adventure_numbers, total_adventurers, <<>>)
     IN  IF r.raised
         THEN /\ total_adventurers' = r.total
              /\ m1_ret' = <<"ZeroDivisionError">>
              /\ m1_pc' = "raised"
         ELSE /\ total_adventurers' = Restored(temp, r.total)
              /\ m1_ret' = r.res_rewards
              /\ m1_pc' = "returned"
  /\ UNCHANGED <<bst_sites, m1_remaining, updates, inserted, landVars,
                 histVars, m2Vars>>

\* mutant: the Land goes back under the key it had
ReinsertKey_old(old_key, new_reward, new_guardians) == old_key

\* update_site's second key, from the new fields (new_reward # 0)
ReinsertKey(old_key, new_reward, new_guardians) ==
  RatioKey(Rat(new_reward), new_guardians)

\* mutant: the deletion of a key that is not there passes silently
DelRaises_never(bst, key) == FALSE

\* del self.sites[key], outside any try: the KeyError of a key that is not
\* there ends update_site
DelRaises(bst, key) == ~BstHas(bst, key)

\* a caller's update_site(land, new_reward, new_guardians)
update_site(land, new_reward, new_guardians) ==
  /\ M1Idle
  /\ updates < MaxUpdates
  /\ updates' = updates + 1
  /\ m1_op' = [name |-> "update_site", args |-> <<land, new_reward, new_guardians>>]
  /\ IF gold[land][1] = 0
     THEN \* the first key: ZeroDivisionError
          /\ m1_pc' = "raised"
          /\ m1_ret' = <<"ZeroDivisionError">>
          /\ UNCHANGED <<bst_sites, landVars>>
     ELSE LET key == RatioKey(gold[land], guardians[land])
          IN  IF DelRaises(bst_sites, key)
              THEN \* del self.sites[key]: KeyError
                   /\ m1_pc' = "raised"
                   /\ m1_ret' = <<"KeyError">>
                   /\ UNCHANGED <<bst_sites, landVars>>
              ELSE /\ gold' = [gold EXCEPT ![land] = Rat(new_reward)]
                   /\ guardians' = [guardians EXCEPT ![land] = new_guardians]
                   /\ IF new_reward = 0
                      THEN \* the second key: ZeroDivisionError
                           /\ bst_sites' = BstDel(bst_sites, key)
                           /\ m1_pc' = "raised"
                           /\ m1_ret' = <<"ZeroDivisionError">>
                      ELSE /\ bst_sites' =
                                BstSet(BstDel(bst_sites, key),
                                       ReinsertKey(key, new_reward, new_guardians),
                                       land)
                           /\ m1_pc' = "returned"
                           /\ m1_ret' = <<>>
  /\ UNCHANGED <<total_adventurers, m1_remaining, inserted, histVars, m2Vars>>

\* the caller has the call's result, or has caught what it raised, and goes on
m1_resume ==
  /\ m1_pc \in {"returned", "raised"}
  /\ m1_pc' = "idle"
  /\ m1_op' = NoOp
  /\ m1_ret' = <<>>
  /\ m1_remaining' = 0
  /\ UNCHANGED <<bst_sites, total_adventurers, updates, inserted, landVars,
                 histVars, m2Vars>>

NextM1 ==
  \/ \E S \in SUBSET Lands, adventurers \in AdvValues : mode1_init(S, adventurers)
  \/ select_sites
  \/ \E adventure_numbers \in SeqsUpTo(AdvValues, MaxProbes) :
       select_sites_from_adventure_numbers(adventure_numbers)
  \/ \E land \in Lands, new_reward \in NewRewards, new_guardians \in NewGuardians :
       update_site(land, new_reward, new_guardians)
  \/ m1_resume

SpecM1 == InitM1 /\ [][NextM1]_vars

\* ------------------------------------------- construction from many sites
\* Lands named by number, and the guardians a caller may give them: every
\* multiplier spreads them differently, no two Lands alike (17 is prime)
ManySites == 1 .. MaxSites
Spreads == {1, 3, 5, 16}

\* Lands as their caller constructed them, pairwise different in
\* guardians/gold, before Mode1Navigator(...)
InitMany ==
  /\ \E k \in Spreads, g \in {1, 7} :
        /\ gold = [l \in ManySites |-> Rat(g)]
        /\ guardians = [l \in ManySites |-> (l * k) % 17]
  /\ gold0 = gold
  /\ guardians0 = guardians
  /\ bst_sites = {}
  /\ total_adventurers = 0
  /\ m1_pc = "new"
  /\ m1_op = NoOp
  /\ m1_ret = <<>>
  /\ m1_remaining = 0
  /\ updates = 0
  /\ inserted = <<>>
  /\ M2Unused

NextMany == \E S \in SUBSET ManySites : mode1_init(S, MaxAdv)

SpecMany == InitMany /\ [][NextMany]_vars

\* ------------------------------------------------------------ claims
Last(s) == s[Len(s)]

\* a step of simulate_day's loop that recorded a result (team_turn, not raising)
TurnStep == m2_pc = "loop" /\ team' = team + 1

\* C1: for every team count, buffer and budget, simulate_day completes
\* normally and returns one entry per team (a team that finds the queue
\* empty records (None, 0)).
C1_SimulateDayCompletes ==
  /\ m2_pc # "raised"
  /\ m2_pc = "returned" => Len(res_tuples) = n_teams

C3_PopsMaxAttacksAboveThreshold ==
  [][TurnStep =>
       LET node == heap_node'
           attacked == Last(res_tuples')[1] # None
       IN  /\ node \in BagToSet(heap_sites)
           /\ \A m \in BagToSet(heap_sites) :
                 m.o_score[1] * node.o_score[2] <= node.o_score[1] * m.o_score[2]
           /\ attacked <=> 2 * node.o_score[1] > 5 * adventurer_size * node.o_score[2]
           /\ attacked => Last(res_tuples')[1] = node.land
           /\ ~attacked => heap_sites' = heap_sites (-) SetToBag({node})]_vars

C3_Witness ==
  /\ m2_pc = "loop"
  /\ heap_node # NoNode
  /\ adventurer_size > 0
  /\ guardians[heap_node.land] > 0
  /\ 2 * heap_node.o_score[1] = 5 * adventurer_size * heap_node.o_score[2]
  /\ Last(res_tuples) = <<None, 0>>
  /\ Len(res_tuples) >= 2
  /\ res_tuples[1][1] # None

\* the Mode2Navigator docstring example, after its first simulate_day(100)
Example2Run ==
  /\ gold0 = Example2Gold
  /\ guardians0 = Example2Guard
  /\ n_teams = Example2Teams
  /\ adventurer_size = Example2Budget
  /\ days = 1
  /\ Len(sites_temp) = 3
  /\ {sites_temp[i] : i \in 1 .. 3} = Lands
  /\ m2_pc = "returned"

\* C4: an attack on s with sent = min(guardians, B) and reward_obtained =
\* min(sent * gold / guardians, gold) from the values before the attack
\* records (s, sent), takes sent off guardians, takes reward_obtained off
\* gold (floored at 0) and inserts exactly one entry for s scored from the
\* mutated s, so the queue keeps its size; the docstring example yields
\* [(B,100), (A,100), (C,30), (B,20), (None,0)].
C4_AttackEffect ==
  /\ [][(TurnStep /\ Last(res_tuples')[1] # None) =>
          LET s == Last(res_tuples')[1]
              B == adventurer_size
              sent == IF guardians[s] <= B THEN guardians[s] ELSE B
              full == Norm(sent * gold[s][1], gold[s][2] * guardians[s])
              reward_obtained ==
                IF guardians[s] = 0 THEN <<0, 1>>
                ELSE IF RLe(full, gold[s]) THEN full ELSE gold[s]
              left == RSub(gold[s], reward_obtained)
              new_needed == IF guardians'[s] <= B THEN guardians'[s] ELSE B
              new_score ==
                RAdd(Norm(5 * (B - new_needed), 2),
                     IF guardians'[s] = 0 THEN <<0, 1>>
                     ELSE Norm(new_needed * gold'[s][1], gold'[s][2] * guardians'[s]))
          IN  /\ Last(res_tuples') = <<s, sent>>
              /\ guardians' = [guardians EXCEPT ![s] = guardians[s] - sent]
              /\ gold' = [gold EXCEPT ![s] = IF left[1] < 0 THEN <<0, 1>> ELSE left]
              /\ heap_sites' = (heap_sites (-) SetToBag({heap_node'}))
                                  (+) SetToBag({[land |-> s, o_score |-> new_score]})
              /\ BagCardinality(heap_sites') = BagCardinality(heap_sites)]_vars
  /\ [](Example2Run =>
          res_tuples = << <<"B", 100>>, <<"A", 100>>, <<"C", 30>>, <<"B", 20>>,
                          <<None, 0>> >>)

C4_Witness ==
  /\ Example2Run
  /\ Len(res_tuples) = 5
  /\ res_tuples[4] = <<"B", 20>>

\* C5: compute_score on a Land with guardians = 0 returns reward_earned = 0,
\* remaining_adventurers = B and o_score = 2.5 * B, and leaves the Land alone.
C5_ZeroGuardScore ==
  (score_ret # NoCall /\ guardians[score_ret.site] = 0) =>
     /\ score_ret.ret[2] = <<0, 1>>
     /\ score_ret.ret[3] = score_ret.B
     /\ 2 * score_ret.ret[1][1] = 5 * score_ret.B * score_ret.ret[1][2]
     /\ gold = gold0
     /\ guardians = guardians0

C5_Witness ==
  /\ score_ret # NoCall
  /\ guardians[score_ret.site] = 0
  /\ gold[score_ret.site][1] > 0
  /\ score_ret.B > 0

RECURSIVE SumSent(_)
SumSent(res) == IF res = <<>> THEN 0 ELSE Head(res)[2] + SumSent(Tail(res))

\* the adventurers sent before entry i of res
SentBefore(res, i) == SumSent(SubSeq(res, 1, i - 1))

\* guardians/gold of Land a is at most (less than) that of Land b; gold > 0
RatioLe(a, b) ==
  guardians[a] * gold[a][2] * gold[b][1] <= guardians[b] * gold[b][2] * gold[a][1]
RatioLt(a, b) ==
  guardians[a] * gold[a][2] * gold[b][1] < guardians[b] * gold[b][2] * gold[a][1]

SelectReturned == m1_op.name = "select_sites" /\ m1_pc = "returned"

\* C6: the list select_sites returns sends in total no more adventurers than
\* self.total_adventurers, and exactly total_adventurers minus the
\* adventurers remaining when the traversal stopped.
C6_SelectWithinBudget ==
  SelectReturned =>
    /\ SumSent(m1_ret) <= total_adventurers
    /\ SumSent(m1_ret) = total_adventurers - m1_remaining
    /\ m1_remaining >= 0

C6_Witness ==
  /\ SelectReturned
  /\ Len(m1_ret) >= 2
  /\ m1_remaining = 0
  /\ Last(m1_ret)[2] > 0
  /\ Last(m1_ret)[2] < guardians[Last(m1_ret)[1]]

\* the Mode1Navigator docstring example: Mode1Navigator(sites, 300)
Example1Run ==
  /\ gold = Example1Gold
  /\ guardians = Example1Guard
  /\ {e.item : e \in bst_sites} = Lands
  /\ total_adventurers = Example1Budget
  /\ SelectReturned

\* C7: select_sites returns Lands of the container in ascending
\* guardians/gold order, a prefix of the in-order traversal; each gets
\* min(remaining, guardians), each but possibly the last its full guardians,
\* none is visited once remaining is 0; the docstring example yields
\* [(A,100), (C,50), (B,150)].
C7_SelectGreedyPrefix ==
  /\ SelectReturned =>
       LET n == Len(m1_ret)
           returned == {m1_ret[i][1] : i \in 1 .. n}
       IN  /\ \A i \in 1 .. n : \E e \in bst_sites : e.item = m1_ret[i][1]
           /\ \A i \in 1 .. n, j \in 1 .. n :
                i < j => RatioLt(m1_ret[i][1], m1_ret[j][1])
           /\ \A e \in bst_sites :
                e.item \notin returned =>
                  \A i \in 1 .. n : RatioLt(m1_ret[i][1], e.item)
           /\ \A i \in 1 .. n :
                LET remaining == total_adventurers - SentBefore(m1_ret, i)
                    gd == guardians[m1_ret[i][1]]
                IN  /\ remaining > 0
                    /\ m1_ret[i][2] = IF remaining <= gd THEN remaining ELSE gd
                    /\ i < n => m1_ret[i][2] = gd
           /\ n < Cardinality(bst_sites) => SumSent(m1_ret) = total_adventurers
  /\ Example1Run => m1_ret = << <<"A", 100>>, <<"C", 50>>, <<"B", 150>> >>

C7_Witness ==
  /\ Example1Run
  /\ Len(m1_ret) = 3
  /\ m1_ret[3][2] < guardians["B"]

ProbeName == "select_sites_from_adventure_numbers"

\* C8: after select_sites_from_adventure_numbers returns, total_adventurers
\* is what it was before the call, the container and every Land's gold and
\* guardians are unchanged, and the result has one total per number.
C8_ProbeRestoresBudget ==
  [][(m1_op'.name = ProbeName /\ m1_pc' = "returned") =>
       /\ total_adventurers' = total_adventurers
       /\ bst_sites' = bst_sites
       /\ gold' = gold
       /\ guardians' = guardians
       /\ Len(m1_ret') = Len(m1_op'.args)]_vars

C8_Witness ==
  /\ m1_op.name = ProbeName
  /\ m1_pc = "returned"
  /\ Len(m1_op.args) >= 1
  /\ Last(m1_op.args) # total_adventurers
  /\ Len(m1_ret) = Len(m1_op.args)
  /\ Last(m1_ret)[1] > 0

\* C9: select_sites_from_adventure_numbers does not raise on a visited Land
\* with guardians = 0 (it counts 0 for it): it returns a total for every
\* number and restores total_adventurers.
C9_ProbeNoDivisionFault ==
  [][m1_op'.name = ProbeName =>
       /\ m1_pc' = "returned"
       /\ Len(m1_ret') = Len(m1_op'.args)
       /\ total_adventurers' = total_adventurers]_vars

\* an update_site call that returned, on a Land that was in the container
\* under its ratio key
UpdateOfMember ==
  /\ m1_op'.name = "update_site"
  /\ m1_pc' = "returned"
  /\ gold[m1_op'.args[1]][1] # 0
  /\ [key |-> IntDivR(guardians[m1_op'.args[1]], gold[m1_op'.args[1]]),
      item |-> m1_op'.args[1]] \in bst_sites

\* C10 as stated: after update_site, a lookup at the new ratio key returns
\* the Land with its new gold and guardians, and a lookup at the old ratio
\* key fails, whatever the new values.
C10_UpdateRekeys ==
  [][UpdateOfMember =>
       LET land == m1_op'.args[1]
           old_key == IntDivR(guardians[land], gold[land])
           new_key == Norm(m1_op'.args[3], m1_op'.args[2])
       IN  /\ BstGet(bst_sites', new_key) = land
           /\ gold'[land] = <<m1_op'.args[2], 1>>
           /\ guardians'[land] = m1_op'.args[3]
           /\ ~BstHas(bst_sites', old_key)]_vars

\* C10 amended: after update_site returns, a lookup at the new ratio key
\* returns the Land with its new gold and guardians, and a lookup at the old
\* ratio key fails exactly when the new ratio differs from the old one.
C10_UpdateRekeysUnlessSameRatio ==
  [][UpdateOfMember =>
       LET land == m1_op'.args[1]
           old_key == IntDivR(guardians[land], gold[land])
           new_key == Norm(m1_op'.args[3], m1_op'.args[2])
       IN  /\ BstGet(bst_sites', new_key) = land
           /\ gold'[land] = <<m1_op'.args[2], 1>>
           /\ guardians'[land] = m1_op'.args[3]
           /\ ~BstHas(bst_sites', old_key) <=> new_key # old_key]_vars

\* the first update_site, of a Land made with gold 6 and 2 guardians, to
\* gold 3 and 1 guardian: the ratio stays 1/3
C10_Witness ==
  /\ m1_op.name = "update_site"
  /\ m1_pc = "returned"
  /\ updates = 1
  /\ gold0[m1_op.args[1]] = <<6, 1>>
  /\ guardians0[m1_op.args[1]] = 2
  /\ m1_op.args[2] = 3
  /\ m1_op.args[3] = 1
  /\ BstGet(bst_sites, <<1, 3>>) = m1_op.args[1]

\* an update_site call on a Land with gold # 0 whose ratio key is the key of
\* no entry of the container
UpdateOfMissingKey ==
  /\ m1_op'.name = "update_site"
  /\ gold[m1_op'.args[1]][1] # 0
  /\ \A e \in bst_sites :
        e.key # IntDivR(guardians[m1_op'.args[1]], gold[m1_op'.args[1]])

\* C11: update_site on a Land whose current ratio key guardians/gold is the
\* key of no entry of the container fails with KeyError raised to the caller,
\* and leaves the container's entries and the Land's gold and guardians as
\* they were.
C11_UpdateMissingKeyFails ==
  [][UpdateOfMissingKey =>
       /\ m1_pc' = "raised"
       /\ m1_ret' = <<"KeyError">>
       /\ bst_sites' = bst_sites
       /\ gold' = gold
       /\ guardians' = guardians]_vars

\* update_site with a new ratio on a Land that was not given to the
\* constructor, the container holding another Land
C11_Witness ==
  /\ m1_op.name = "update_site"
  /\ m1_pc = "raised"
  /\ m1_ret = <<"KeyError">>
  /\ bst_sites # {}
  /\ \A e \in bst_sites : e.item # m1_op.args[1]
  /\ m1_op.args[2] # 0
  /\ <<m1_op.args[2], 1>> # gold[m1_op.args[1]]
  /\ gold = gold0
  /\ guardians = guardians0

\* C12: a Mode1Navigator can be constructed from an empty list of sites, and
\* select_sites returns the empty list, completing normally, when the
\* container holds no site and when total_adventurers is 0.
C12_SelectEmptyCases ==
  /\ (m1_op.name = "__init__" /\ m1_op.args[1] = {}) =>
       (m1_pc = "returned" /\ bst_sites = {})
  /\ (m1_op.name = "select_sites" /\ (bst_sites = {} \/ total_adventurers = 0)) =>
       (m1_pc = "returned" /\ m1_ret = <<>>)

\* the half of C12 the code has: select_sites with total_adventurers = 0 on
\* a container that holds a site
C12_ZeroBudgetReached ==
  /\ SelectReturned
  /\ total_adventurers = 0
  /\ bst_sites # {}
  /\ m1_ret = <<>>

\* the Lands the container holds
ItemsOf(bst) == {e.item : e \in bst}

\* the container holds exactly the Lands of the set given, one entry each,
\* each under the key that is its guardians/gold now
Intact(given, bst, g, gd) ==
  /\ ItemsOf(bst) = given
  /\ Cardinality(bst) = Cardinality(given)
  /\ \A e \in bst :
        /\ g[e.item][1] # 0
        /\ e.key = Norm(gd[e.item] * g[e.item][2], g[e.item][1])

ConstructionReturned == m1_op'.name = "__init__" /\ m1_pc' = "returned"

\* an update_site call with a nonzero new_reward on a Land of the container
UpdateInContainer ==
  /\ m1_op'.name = "update_site"
  /\ m1_op'.args[1] \in ItemsOf(bst_sites)
  /\ m1_op'.args[2] # 0

\* C13 as stated: after construction from Lands with gold # 0, and after
\* every later update_site with new_reward # 0 on a Land of the container,
\* the container holds exactly the Lands given at construction, none lost,
\* none twice, each under its current guardians/gold.
C13_ContainerIntact ==
  [][/\ ConstructionReturned =>
          Intact(m1_op'.args[1], bst_sites', gold', guardians')
     /\ (UpdateInContainer /\ Intact(Range(inserted), bst_sites, gold, guardians)) =>
          (m1_pc' = "returned"
              /\ Intact(Range(inserted'), bst_sites', gold', guardians'))]_vars

\* guardians/gold differs between any two of the Lands of S
DistinctRatios(S, g, gd) ==
  \A a \in S, b \in S :
    a # b => gd[a] * g[a][2] * g[b][1] # gd[b] * g[b][2] * g[a][1]

\* C13 amended: the same, when the Lands given at construction have pairwise
\* different guardians/gold and each update_site leaves the Lands of the
\* container with pairwise different guardians/gold.
C13_ContainerIntactDistinctRatios ==
  [][/\ (ConstructionReturned /\ DistinctRatios(m1_op'.args[1], gold, guardians))
          => Intact(m1_op'.args[1], bst_sites', gold', guardians')
     /\ (/\ UpdateInContainer
         /\ Intact(Range(inserted), bst_sites, gold, guardians)
         /\ DistinctRatios(ItemsOf(bst_sites),
                           [gold EXCEPT ![m1_op'.args[1]] = <<m1_op'.args[2], 1>>],
                           [guardians EXCEPT ![m1_op'.args[1]] = m1_op'.args[3]]))
          => (m1_pc' = "returned"
              /\ Intact(Range(inserted'), bst_sites', gold', guardians'))]_vars

\* update_site of one of three Lands to a ratio that is new to the container
C13_Witness ==
  /\ m1_op.name = "update_site"
  /\ m1_pc = "returned"
  /\ Cardinality(bst_sites) = 3
  /\ m1_op.args[1] \in ItemsOf(bst_sites)
  /\ gold[m1_op.args[1]] # gold0[m1_op.args[1]]
  /\ RatioKey(gold[m1_op.args[1]], guardians[m1_op.args[1]])
        # RatioKey(gold0[m1_op.args[1]], guardians0[m1_op.args[1]])
  /\ Intact(Range(inserted), bst_sites, gold, guardians)
  /\ DistinctRatios(Lands, gold, guardians)

\* the keys under which construction inserted the Lands, in that order
InsertedKeys(order, g, gd) ==
  [i \in 1 .. Len(order) |-> Norm(gd[order[i]] * g[order[i]][2], g[order[i]][1])]

\* the place of Land x in the ratio-sorted list of the Lands of S, from 1
RankIn(S, x) ==
  1 + Cardinality({y \in S :
        guardians[y] * gold[y][2] * gold[x][1] < guardians[x] * gold[x][2] * gold[y][1]})

\* the median first, then the Lands left of it from the nearest to the
\* first, then the Lands right of it from the nearest to the last
MedianLeftRight(S, order) ==
  LET n == Cardinality(S)
      median == n \div 2 + 1
  IN  /\ Len(order) = n
      /\ \A i \in 1 .. n :
            /\ order[i] \in S
            /\ RankIn(S, order[i]) =
                 IF i = 1 THEN median
                 ELSE IF i <= median THEN median - (i - 1)
                 ELSE i

\* the least k with 2^k >= n
RECURSIVE CeilLog2(_)
CeilLog2(n) == IF n <= 1 THEN 0 ELSE 1 + CeilLog2((n + 1) \div 2)

C15_SentWithinGuardians ==
  /\ [][(TurnStep /\ Last(res_tuples')[1] # None) =>
          LET s == Last(res_tuples')[1]
              sent == Last(res_tuples')[2]
          IN  /\ 1 <= sent
              /\ sent <= adventurer_size
              /\ sent <= guardians[s]]_vars
  /\ [][\A l \in Lands :
          /\ guardians'[l] <= guardians[l]
          /\ gold'[l][1] * gold[l][2] <= gold[l][1] * gold'[l][2]]_vars
  /\ [](\A l \in Lands :
          /\ guardians[l] >= 0
          /\ gold[l][1] >= 0
          /\ gold[l][2] > 0
          /\ sent_sum[l] = guardians0[l] - guardians[l])

\* a Land made with 3 guardians, attacked more than once and now without
\* guardians, the last time on the second day by a single adventurer
C15_Witness ==
  /\ m2_pc = "returned"
  /\ days = 2
  /\ \E l \in Lands :
        /\ guardians0[l] = 3
        /\ guardians[l] = 0
        /\ sent_sum[l] = 3
        /\ \E i \in 1 .. Len(res_tuples) : res_tuples[i] = <<l, 1>>
        /\ \A i \in 1 .. Len(res_tuples) : res_tuples[i] # <<l, 2>>

====
